---------------------------- MODULE Spec2Model ----------------------------
(***************************************************************************)
(* Crease-pattern generator (src/pgen.py): miura_ori and the line          *)
(* renderers it is given as line_func.                                     *)
(*                                                                         *)
(* Numbers.  The program computes in floating point; the model computes    *)
(* the same expressions in exact rational arithmetic.  A rational is a     *)
(* pair <<n, d>> in lowest terms with d > 0.  Angles are kept as direction *)
(* vectors [c |-> cos, s |-> sin] up to a positive factor, so that sin,    *)
(* cos, tan and the sum of two angles stay rational.  The base angles are  *)
(* taken from Pythagorean triples, and the rendered segments from those    *)
(* of rational length, which keeps sqrt exact as well.                     *)
(***************************************************************************)
EXTENDS Integers, Sequences, FiniteSets

VARIABLES
    cfg,      \* miura_ori: the arguments radius, beta, target_*, cell_*
    pc,       \* miura_ori: position in the function body
    i, j,     \* miura_ori: the grid loop's indices
    lines,    \* miura_ori: the calls made to add_line / line_func, in order
    saved,    \* miura_ori: dwg.save() has run
    err,      \* miura_ori: the exception that ended the call, or "none"
    req,      \* renderer: the arguments of the call (x1, y1, x2, y2, line_type)
    dwg,      \* renderer: the primitives added to the drawing, in order
    locals    \* renderer: the locals of lasercutter_base_line at its end

vars == <<cfg, pc, i, j, lines, saved, err, req, dwg, locals>>

---------------------------------------------------------------------------
(* Exact rational arithmetic.                                              *)

Abs(x) == IF x < 0 THEN -x ELSE x

RECURSIVE GCD(_, _)
GCD(a, b) == IF b = 0 THEN a ELSE GCD(b, a % b)

\* n/d in lowest terms with a positive denominator (d # 0)
Rat(n, d) ==
    LET g == GCD(Abs(n), Abs(d))
        s == IF d < 0 THEN -1 ELSE 1
    IN  <<(s * n) \div g, (s * d) \div g>>

Int2Rat(k) == <<k, 1>>
\* sums go over the least common denominator, to keep the integers small
LCM(a, b) == a * (b \div GCD(a, b))
RAdd(p, q) ==
    LET l == LCM(p[2], q[2])
    IN  Rat(p[1] * (l \div p[2]) + q[1] * (l \div q[2]), l)
RSub(p, q) ==
    LET l == LCM(p[2], q[2])
    IN  Rat(p[1] * (l \div p[2]) - q[1] * (l \div q[2]), l)
RMul(p, q) == Rat(p[1] * q[1], p[2] * q[2])
RDiv(p, q) == Rat(p[1] * q[2], p[2] * q[1])
RLe(p, q)  == p[1] * q[2] <= q[1] * p[2]
RLt(p, q)  == p[1] * q[2] < q[1] * p[2]
RMin(p, q) == IF RLe(p, q) THEN p ELSE q
RMax(p, q) == IF RLe(p, q) THEN q ELSE p
RFloor(p)  == p[1] \div p[2]
RZero      == <<0, 1>>

\* square root of a rational that is the square of a rational
RECURSIVE SqrtSearch(_, _, _)
SqrtSearch(n, lo, hi) ==
    IF lo >= hi THEN lo
    ELSE LET mid == (lo + hi + 1) \div 2
         IN  IF mid * mid <= n THEN SqrtSearch(n, mid, hi)
                               ELSE SqrtSearch(n, lo, mid - 1)
\* floor of the square root (46340 is the largest root of a 32-bit integer)
ISqrt(n) == SqrtSearch(n, 0, IF n < 46340 THEN n ELSE 46340)
IsSquare(n) == ISqrt(n) * ISqrt(n) = n
RSqrt(p) == <<ISqrt(p[1]), ISqrt(p[2])>>
RHasSqrt(p) == IsSquare(p[1]) /\ IsSquare(p[2])

---------------------------------------------------------------------------
(* Bounds of the model and the inputs drawn within them.                   *)

MaxTargetWidth == 4
MaxTargetHeight == 3

\* base angles: beta = 0, atan(3/4), atan(4/3)
Betas == { [sn |-> 0, cs |-> 1, hyp |-> 1],
           [sn |-> 3, cs |-> 4, hyp |-> 5],
           [sn |-> 4, cs |-> 3, hyp |-> 5] }
Radii == {-1, 0, 10}
CellSizes == {-1, 0, 1, 2}

VALLEY == "VALLEY"
MOUNTAIN == "MOUNTAIN"
EDGE == "EDGE"
LineType == {VALLEY, MOUNTAIN, EDGE}

---------------------------------------------------------------------------
(* miura_ori: the angle solver, lines 127-145.                             *)

CosBeta(c) == Rat(c.beta.cs, c.beta.hyp)

\* radius ** 2 + cell_height ** 2 - 2 * radius * cell_height * cos(beta)
DistSquared(c) ==
    RSub(Int2Rat(c.radius * c.radius + c.cell_height * c.cell_height),
         RMul(Int2Rat(2 * c.radius * c.cell_height), CosBeta(c)))

\* delta = asin(cell_height * sin(beta) / sqrt(DistSquared)).  With
\* D = hyp * sqrt(DistSquared) > 0, sin(delta) = cell_height * sn / D, and asin
\* returns the angle of that sine with cos(delta) = sqrt(1 - sin^2) >= 0:
\* D^2 - (cell_height * sn)^2 = (radius * hyp - cell_height * cs)^2, so
\* cos(delta) = |radius * hyp - cell_height * cs| / D.
delta(c) ==
    [c |-> Abs(c.radius * c.beta.hyp - c.cell_height * c.beta.cs),
     s |-> c.cell_height * c.beta.sn]

\* alpha = beta + delta, by the addition formulas
alpha(c) ==
    [c |-> c.beta.cs * delta(c).c - c.beta.sn * delta(c).s,
     s |-> c.beta.sn * delta(c).c + c.beta.cs * delta(c).s]

TanBeta(c) == Rat(c.beta.sn, c.beta.cs)
TanAlpha(c) == Rat(alpha(c).s, alpha(c).c)

\* alpha >= beta (line 144): the sign of delta, which lies in [-pi/2, pi/2]
AlphaGeBeta(c) == delta(c).s >= 0

smallest_cell_side(c) ==
    RAdd(Int2Rat(c.cell_height),
         RMul(Int2Rat(c.cell_width), RSub(TanBeta(c), TanAlpha(c))))

\* mutant of cells_hor: the quotient rounded up instead of down
cells_hor_RoundedUp(c) == -RFloor(Rat(-c.target_width, c.cell_width))

cells_hor(c) == RFloor(Rat(c.target_width, c.cell_width))
cells_vert(c) == RFloor(Rat(c.target_height, c.cell_height))
height_cut(c) == RMul(Int2Rat(c.cell_height), TanAlpha(c))
width(c) == Int2Rat(cells_hor(c) * c.cell_width)
height(c) == RSub(Int2Rat(cells_vert(c) * c.cell_height), height_cut(c))

\* The divisions of lines 127-139 that raise: by sqrt(...) = 0 (line 128), by
\* cell_width = 0 (line 138), by cell_height = 0 (line 139)
DivisionError(c) ==
    IF DistSquared(c) = RZero \/ c.cell_width = 0 \/ c.cell_height = 0
    THEN "ZeroDivisionError" ELSE "none"

\* lines 144-145: an assertion fails
AssertionFails(c) ==
    ~AlphaGeBeta(c) \/ RLt(smallest_cell_side(c), RZero)

\* The exception raised by lines 127-145, or "none": the divisions by zero
\* come first, then the two assertions.
SolveError(c) ==
    IF DivisionError(c) # "none" THEN DivisionError(c)
    ELSE IF AssertionFails(c) THEN "AssertionError"
    ELSE "none"

\* The arguments the model draws.  A call that gets as far as tan(alpha) with
\* alpha = pi/2 exactly is left out: tan has no value there (the program gets
\* an arbitrary huge float).
Configs ==
    { c \in [radius : Radii, beta : Betas,
             target_width : -1..MaxTargetWidth, target_height : -1..MaxTargetHeight,
             cell_width : CellSizes, cell_height : CellSizes] :
        DistSquared(c) = RZero \/ alpha(c).c # 0 }


---------------------------------------------------------------------------
(* miura_ori: the tessellation, lines 160-210.                             *)

clip_x(c, x) == RMax(RZero, RMin(x, width(c)))

\* mutant of clip_y: the lower clamp at 0 is missing
clip_y_NoLowerClamp(c, y) == RMin(y, height(c))

clip_y(c, y) == RMax(RZero, RMin(y, height(c)))

\* One call of add_line: the arguments it is given (in cell units), the clipped
\* coordinates it hands to line_func, and the place of the call in miura_ori
\* (at = <<branch, i, j>>, kept for the properties only).
add_line(c, start_x, start_y, end_x, end_y, line_type, at) ==
    [start_x |-> start_x, start_y |-> start_y, end_x |-> end_x, end_y |-> end_y,
     x1 |-> clip_x(c, RMul(start_x, Int2Rat(c.cell_width))),
     y1 |-> clip_y(c, RSub(RMul(start_y, Int2Rat(c.cell_height)), height_cut(c))),
     x2 |-> clip_x(c, RMul(end_x, Int2Rat(c.cell_width))),
     y2 |-> clip_y(c, RSub(RMul(end_y, Int2Rat(c.cell_height)), height_cut(c))),
     line_type |-> line_type, at |-> at]

\* angle_offset(angle) = cell_width / cell_height * tan(angle)
angle_offset(c, tanAngle) ==
    RMul(Rat(c.cell_width, c.cell_height), tanAngle)

\* lines 183-186
EdgeLines(c) ==
    LET ch == Int2Rat(cells_hor(c))
        cv == Int2Rat(cells_vert(c))
    IN  << add_line(c, RZero, RZero, ch, RZero, EDGE, <<"edge", 0, 0>>),
           add_line(c, ch, RZero, ch, cv, EDGE, <<"edge", 1, 0>>),
           add_line(c, ch, cv, RZero, cv, EDGE, <<"edge", 2, 0>>),
           add_line(c, RZero, cv, RZero, RZero, EDGE, <<"edge", 3, 0>>) >>

\* lines 191-201: the corner coordinates of cell (ci, cj), in cell units
offset_left(ci) == ci % 2
offset_right(ci) == 1 - (ci % 2)
offset_top(c, cj) == angle_offset(c, IF cj % 2 = 0 THEN TanBeta(c) ELSE TanAlpha(c))
offset_bottom(c, cj) == angle_offset(c, IF cj % 2 = 0 THEN TanAlpha(c) ELSE TanBeta(c))
x21(ci) == Int2Rat(ci)
x12(ci) == Int2Rat(ci + 1)
x22(ci) == Int2Rat(ci + 1)
y12(c, ci, cj) ==
    IF cj > 0
    THEN RAdd(Int2Rat(cj), RMul(Int2Rat(offset_right(ci)), offset_top(c, cj)))
    ELSE RZero
y21(c, ci, cj) ==
    RAdd(Int2Rat(cj + 1), RMul(Int2Rat(offset_left(ci)), offset_bottom(c, cj)))
y22(c, ci, cj) ==
    RAdd(Int2Rat(cj + 1), RMul(Int2Rat(offset_right(ci)), offset_bottom(c, cj)))

\* mutant of ColumnLineType: the type alternates with the row only
ColumnLineType_ByRow(ci, cj) == IF cj % 2 = 0 THEN VALLEY ELSE MOUNTAIN

\* line 204
ColumnLineType(ci, cj) == IF (ci + cj) % 2 = 0 THEN VALLEY ELSE MOUNTAIN
\* line 207
RowLineType(cj) == IF cj % 2 = 0 THEN MOUNTAIN ELSE VALLEY

\* lines 203-205: the line added when i is not the last column
ColumnLine(c, ci, cj) ==
    add_line(c, x12(ci), y12(c, ci, cj), x22(ci), y22(c, ci, cj),
             ColumnLineType(ci, cj), <<"not_last_column", ci, cj>>)

\* mutant of RowLine: the line starts at the right column boundary, x22
RowLine_Vertical(c, ci, cj) ==
    add_line(c, x22(ci), y21(c, ci, cj), x22(ci), y22(c, ci, cj),
             RowLineType(cj), <<"not_last_row", ci, cj>>)

\* lines 206-208: the line added when j is not the last row
RowLine(c, ci, cj) ==
    add_line(c, x21(ci), y21(c, ci, cj), x22(ci), y22(c, ci, cj),
             RowLineType(cj), <<"not_last_row", ci, cj>>)

\* lines 191-208: the body of the grid loop for cell (ci, cj)
CellLines(c, ci, cj) ==
    (IF ci # cells_hor(c) - 1 THEN <<ColumnLine(c, ci, cj)>> ELSE <<>>)
    \o (IF cj # cells_vert(c) - 1 THEN <<RowLine(c, ci, cj)>> ELSE <<>>)

---------------------------------------------------------------------------
(* miura_ori as a state machine.                                           *)

NoReq == [x1 |-> RZero, y1 |-> RZero, x2 |-> RZero, y2 |-> RZero,
          line_type |-> EDGE, line_func |-> "none"]
NoLocals == [drawn |-> FALSE]

Init ==
    /\ cfg \in Configs
    /\ pc = "call"
    /\ i = 0 /\ j = 0
    /\ lines = <<>>
    /\ saved = FALSE
    /\ err = "none"
    /\ req = NoReq /\ dwg = <<>> /\ locals = NoLocals

\* mutant of Solve: the assertions of lines 144-145 run after the edges are drawn
Solve_AssertAfterEdges ==
    /\ pc = "call"
    /\ IF DivisionError(cfg) # "none"
       THEN /\ err' = DivisionError(cfg)
            /\ pc' = "raised"
            /\ lines' = lines
       ELSE /\ lines' = lines \o EdgeLines(cfg)
            /\ err' = IF AssertionFails(cfg) THEN "AssertionError" ELSE "none"
            /\ pc' = IF AssertionFails(cfg) THEN "raised" ELSE "grid"
    /\ UNCHANGED <<cfg, i, j, saved, req, dwg, locals>>

\* lines 127-163: derive the geometry, raise on a division by zero or a failed
\* assertion, otherwise create the drawing
Solve ==
    /\ pc = "call"
    /\ err' = SolveError(cfg)
    /\ pc' = IF SolveError(cfg) = "none" THEN "edges" ELSE "raised"
    /\ UNCHANGED <<cfg, i, j, lines, saved, req, dwg, locals>>

\* lines 183-186
Edges ==
    /\ pc = "edges"
    /\ lines' = lines \o EdgeLines(cfg)
    /\ pc' = "grid"
    /\ UNCHANGED <<cfg, i, j, saved, err, req, dwg, locals>>

\* lines 190-208: one pass of the inner loop
GridCell ==
    /\ pc = "grid"
    /\ i < cells_hor(cfg)
    /\ j < cells_vert(cfg)
    /\ lines' = lines \o CellLines(cfg, i, j)
    /\ j' = j + 1
    /\ UNCHANGED <<cfg, pc, i, saved, err, req, dwg, locals>>

\* lines 189-190: the inner loop is over, the outer loop moves on
NextColumn ==
    /\ pc = "grid"
    /\ i < cells_hor(cfg)
    /\ j >= cells_vert(cfg)
    /\ i' = i + 1
    /\ j' = 0
    /\ UNCHANGED <<cfg, pc, lines, saved, err, req, dwg, locals>>

\* line 210
Save ==
    /\ pc = "grid"
    /\ i >= cells_hor(cfg)
    /\ saved' = TRUE
    /\ pc' = "done"
    /\ UNCHANGED <<cfg, i, j, lines, err, req, dwg, locals>>

Next == Solve \/ Edges \/ GridCell \/ NextColumn \/ Save

Spec == Init /\ [][Next]_vars


---------------------------------------------------------------------------
(* The line renderers, lines 8-114.                                        *)

MaxCoord == 5

\* lines 9-10: PT_PER_UNIT = 72 / 2.54
UNITS_PER_INCH == Rat(254, 100)
PT_PER_UNIT == RDiv(Int2Rat(72), UNITS_PER_INCH)

\* the end points drawn lie on a grid of 2 mm (coordinates are in cm)
GridStep == Rat(1, 5)
Coord(k) == RMul(Int2Rat(k), GridStep)

\* (x2 - x1) ** 2 + (y2 - y1) ** 2
SquaredLength(r) ==
    RAdd(RMul(RSub(r.x2, r.x1), RSub(r.x2, r.x1)),
         RMul(RSub(r.y2, r.y1), RSub(r.y2, r.y1)))

\* The calls the model draws: a segment of rational length and its fold type.
Requests ==
    { r \in [x1 : {Coord(k) : k \in 0..1}, y1 : {Coord(k) : k \in 0..1},
             x2 : {Coord(k) : k \in 0..MaxCoord}, y2 : {Coord(k) : k \in 0..MaxCoord},
             line_type : LineType, line_func : {"none"}] :
        RHasSqrt(SquaredLength(r)) }

\* lines 63-65
safe_zone_pt == 3
dash_length_pt == Rat(72, 10)
gap_length_pt == Rat(72, 10)

\* line 52
weighted_average(a, b, t) == RAdd(RMul(a, t), RMul(b, RSub(Int2Rat(1), t)))

\* line 66
full_line_length_pt(r) == RMul(RSqrt(SquaredLength(r)), PT_PER_UNIT)
\* line 68
line_length_pt(r) == RSub(full_line_length_pt(r), Int2Rat(2 * safe_zone_pt))
\* lines 72-73
t_start(r) == RDiv(Int2Rat(safe_zone_pt), full_line_length_pt(r))
t_end(r) == RSub(Int2Rat(1), t_start(r))

\* dash_count * dash_length_pt + (dash_count - 1) * gap_length_pt
PatternLength(n) ==
    RAdd(RMul(Int2Rat(n), dash_length_pt), RMul(Int2Rat(n - 1), gap_length_pt))

\* lines 79-81: the while loop, entered with dash_count = n
RECURSIVE DashLoop(_, _)
DashLoop(n, len) ==
    IF RLe(PatternLength(n), len) THEN DashLoop(n + 1, len) ELSE n
dash_count(len) == DashLoop(1, len)

\* mutant of dash_offset_pt: the difference is taken the other way round
dash_offset_pt_Reversed(n, len) == RDiv(RSub(len, PatternLength(n)), Int2Rat(2))

\* line 83
dash_offset_pt(n, len) == RDiv(RSub(PatternLength(n), len), Int2Rat(2))

\* lines 33-39 and 55-58: a solid line
SolidLine(r, color, thickness_pt) ==
    [start |-> <<r.x1, r.y1>>, end |-> <<r.x2, r.y2>>,
     stroke |-> color, stroke_width |-> thickness_pt,
     dasharray |-> <<>>, dashoffset |-> RZero]

\* lines 74-77 and 85-92: the dashed line
DashedLine(r, thickness_pt) ==
    [start |-> <<weighted_average(r.x1, r.x2, t_start(r)),
                 weighted_average(r.y1, r.y2, t_start(r))>>,
     end |-> <<weighted_average(r.x1, r.x2, t_end(r)),
               weighted_average(r.y1, r.y2, t_end(r))>>,
     stroke |-> "red", stroke_width |-> thickness_pt,
     dasharray |-> <<dash_length_pt, gap_length_pt>>,
     dashoffset |-> dash_offset_pt(dash_count(line_length_pt(r)), line_length_pt(r))]

\* lines 42-92: what lasercutter_base_line adds to the drawing
lasercutter_base_line(thickness_pt, r) ==
    IF r.line_type = EDGE THEN <<SolidLine(r, "red", thickness_pt)>>
    ELSE IF RLe(line_length_pt(r), RZero) THEN <<>>
    ELSE <<DashedLine(r, thickness_pt)>>

\* the locals of lasercutter_base_line when it returns
BaseLineLocals(r) ==
    IF r.line_type = EDGE \/ RLe(line_length_pt(r), RZero) THEN NoLocals
    ELSE [drawn |-> TRUE,
          full_line_length_pt |-> full_line_length_pt(r),
          line_length_pt |-> line_length_pt(r),
          t_start |-> t_start(r),
          dash_count |-> dash_count(line_length_pt(r)),
          dash_offset_pt |->
              dash_offset_pt(dash_count(line_length_pt(r)), line_length_pt(r))]

\* lines 28-33
SimulatorColor(line_type) ==
    IF line_type = VALLEY THEN "blue"
    ELSE IF line_type = MOUNTAIN THEN "red"
    ELSE "black"

InitLine ==
    /\ cfg = [radius |-> 10, beta |-> [sn |-> 3, cs |-> 4, hyp |-> 5],
              target_width |-> 0, target_height |-> 0,
              cell_width |-> 1, cell_height |-> 1]
    /\ pc = "render"
    /\ i = 0 /\ j = 0
    /\ lines = <<>>
    /\ saved = FALSE
    /\ err = "none"
    /\ req \in Requests
    /\ dwg = <<>>
    /\ locals = NoLocals

\* lines 20-39
simulator_line ==
    /\ pc = "render"
    /\ req' = [req EXCEPT !.line_func = "simulator_line"]
    /\ dwg' = dwg \o <<SolidLine(req, SimulatorColor(req.line_type), Int2Rat(3))>>
    /\ pc' = "rendered"
    /\ UNCHANGED <<cfg, i, j, lines, saved, err, locals>>

\* lines 95-103
lasercutter_line ==
    /\ pc = "render"
    /\ req' = [req EXCEPT !.line_func = "lasercutter_line"]
    /\ dwg' = dwg \o lasercutter_base_line(Rat(1, 100), req)
    /\ locals' = BaseLineLocals(req)
    /\ pc' = "rendered"
    /\ UNCHANGED <<cfg, i, j, lines, saved, err>>

\* lines 106-114
lasercutter_preview_line ==
    /\ pc = "render"
    /\ req' = [req EXCEPT !.line_func = "lasercutter_preview_line"]
    /\ dwg' = dwg \o lasercutter_base_line(Int2Rat(2), req)
    /\ locals' = BaseLineLocals(req)
    /\ pc' = "rendered"
    /\ UNCHANGED <<cfg, i, j, lines, saved, err>>

NextLine == simulator_line \/ lasercutter_line \/ lasercutter_preview_line

SpecLine == InitLine /\ [][NextLine]_vars

---------------------------------------------------------------------------
(* Properties of the renderers, checked under SpecLine.                    *)

\* the largest n >= 0 with n * dash + (n - 1) * gap <= len, for len > 0
LargestFit(len) ==
    CHOOSE n \in 0..(RFloor(len) + 1) :
        RLe(PatternLength(n), len) /\ ~RLe(PatternLength(n + 1), len)

Two == Int2Rat(2)

\* C1: for a VALLEY or MOUNTAIN segment of positive usable length, the
\* dash_count used for the dash offset is the largest n with
\* n * dash_length + (n - 1) * gap_length <= usable length.
C1_DashCountIsLargestFit ==
    locals.drawn => locals.dash_count = LargestFit(locals.line_length_pt)

PointAt(r, t) ==
    <<RAdd(r.x1, RMul(t, RSub(r.x2, r.x1))), RAdd(r.y1, RMul(t, RSub(r.y2, r.y1)))>>

\* C9: the dashed primitive starts at the point at distance safe_zone from p1
\* (parameter t = safe_zone / full_length) and ends at the point at distance
\* safe_zone from p2 (parameter 1 - t).
C9_DashedLineRunsFromP1ToP2 ==
    locals.drawn =>
        /\ dwg[1].start = PointAt(req, locals.t_start)
        /\ dwg[1].end = PointAt(req, RSub(Int2Rat(1), locals.t_start))

---------------------------------------------------------------------------
(* Properties of miura_ori, checked under Spec.                            *)

\* the call got past lines 127-145
Passed == pc \in {"edges", "grid", "done"}

LineIndices == 1..Len(lines)

InRange(x, lo, hi) == RLe(lo, x) /\ RLe(x, hi)

\* the inputs the pattern is meant for: positive radius and cell sizes,
\* target sizes that are not negative
PositiveInputs(c) ==
    /\ c.radius > 0 /\ c.cell_width > 0 /\ c.cell_height > 0
    /\ c.target_width >= 0 /\ c.target_height >= 0

\* C3 as stated: both end points of every line handed to line_func lie in
\* [0, pattern_width] x [0, pattern_height] (here for positive inputs alone).
C3_InsidePattern ==
    PositiveInputs(cfg) =>
    \A k \in LineIndices :
        /\ InRange(lines[k].x1, RZero, width(cfg))
        /\ InRange(lines[k].x2, RZero, width(cfg))
        /\ InRange(lines[k].y1, RZero, height(cfg))
        /\ InRange(lines[k].y2, RZero, height(cfg))

\* C3, amended: both end points lie in [0, max(0, pattern_width)] x
\* [0, max(0, pattern_height)]; a coordinate is 0 when its bound is negative.
C3_InsideClampedPattern ==
    \A k \in LineIndices :
        /\ InRange(lines[k].x1, RZero, RMax(RZero, width(cfg)))
        /\ InRange(lines[k].x2, RZero, RMax(RZero, width(cfg)))
        /\ InRange(lines[k].y1, RZero, RMax(RZero, height(cfg)))
        /\ InRange(lines[k].y2, RZero, RMax(RZero, height(cfg)))

\* a finished pass with a negative pattern_height and a fold line in it
C3_Witness ==
    /\ pc = "done"
    /\ RLt(height(cfg), RZero)
    /\ \E k \in LineIndices : lines[k].line_type # EDGE

\* the geometry failures of C4: alpha < beta, a negative smallest cell side,
\* or cell_height = 0
GeometryFails(c) ==
    \/ c.cell_height = 0
    \/ DivisionError(c) = "none" /\ AssertionFails(c)

\* C4: a call that fails, and any call whose geometry fails, has handed no
\* segment to line_func and has not saved the drawing.
C4_NoPartialPattern ==
    (pc = "raised" \/ GeometryFails(cfg)) => (lines = <<>> /\ ~saved)

\* a call with a grid to draw that failed on alpha < beta
C4_Witness ==
    /\ pc = "raised"
    /\ err = "AssertionError"
    /\ ~AlphaGeBeta(cfg)
    /\ cfg.target_width >= cfg.cell_width /\ cfg.cell_width > 0

\* C5: a call with a zero or negative radius, cell_width or cell_height never
\* renders a segment, never saves and never completes.
C5_NonPositiveInputFails ==
    (cfg.radius <= 0 \/ cfg.cell_width <= 0 \/ cfg.cell_height <= 0) =>
        (pc # "done" /\ lines = <<>> /\ ~saved)

\* the lines added at the given place of the grid loop
LinesAt(at) == {k \in LineIndices : lines[k].at = at}

\* C6: a line added under "i is not the last column" belongs to a cell (i, j)
\* with 0 <= i < cells_hor - 1 and 0 <= j < cells_vert and is VALLEY when i + j
\* is even, MOUNTAIN when odd; a finished pass has added exactly one for each
\* such cell.
C6_ColumnBranchTags ==
    /\ \A k \in LineIndices :
         lines[k].at[1] = "not_last_column" =>
            LET ci == lines[k].at[2]
                cj == lines[k].at[3]
            IN  /\ 0 <= ci /\ ci < cells_hor(cfg) - 1
                /\ 0 <= cj /\ cj < cells_vert(cfg)
                /\ lines[k].line_type =
                       (IF (ci + cj) % 2 = 0 THEN VALLEY ELSE MOUNTAIN)
    /\ pc = "done" =>
         \A ci \in 0..(cells_hor(cfg) - 2), cj \in 0..(cells_vert(cfg) - 1) :
            Cardinality(LinesAt(<<"not_last_column", ci, cj>>)) = 1

\* the type of the one line added at the given place
TypeAt(at) == lines[CHOOSE k \in LinesAt(at) : TRUE].line_type

\* a finished 4 x 3 grid whose row 0 reads VALLEY, MOUNTAIN, VALLEY
C6_Witness ==
    /\ pc = "done"
    /\ cells_hor(cfg) = 4 /\ cells_vert(cfg) = 3
    /\ TypeAt(<<"not_last_column", 0, 0>>) = VALLEY
    /\ TypeAt(<<"not_last_column", 1, 0>>) = MOUNTAIN
    /\ TypeAt(<<"not_last_column", 2, 0>>) = VALLEY
    /\ LinesAt(<<"not_last_column", 3, 0>>) = {}

OnlyTheFourEdges ==
    /\ \A k \in LineIndices : lines[k].line_type = EDGE
    /\ pc \in {"grid", "done"} =>
         /\ Len(lines) = 4
         /\ \A k \in 1..4 : lines[k].at = <<"edge", k - 1, 0>>

UnclippedX(x) == RMul(x, Int2Rat(cfg.cell_width))

\* C8 as stated: the line added under "j is not the last row" has both end
\* points at x = (i + 1) * cell_width before clipping and is MOUNTAIN when j
\* is even, VALLEY when odd.
C8_RowBranchVertical ==
    \A k \in LineIndices :
        lines[k].at[1] = "not_last_row" =>
            LET ci == lines[k].at[2]
                cj == lines[k].at[3]
            IN  /\ UnclippedX(lines[k].start_x) = Int2Rat((ci + 1) * cfg.cell_width)
                /\ UnclippedX(lines[k].end_x) = Int2Rat((ci + 1) * cfg.cell_width)
                /\ lines[k].line_type = (IF cj % 2 = 0 THEN MOUNTAIN ELSE VALLEY)

\* C8, amended: the line added under "j is not the last row" runs along the
\* bottom of the cell, from its bottom-left corner at x = i * cell_width to its
\* bottom-right corner at x = (i + 1) * cell_width before clipping, and is
\* MOUNTAIN when j is even, VALLEY when odd.
C8_RowBranchAlongBottom ==
    \A k \in LineIndices :
        lines[k].at[1] = "not_last_row" =>
            LET ci == lines[k].at[2]
                cj == lines[k].at[3]
            IN  /\ cj # cells_vert(cfg) - 1
                /\ UnclippedX(lines[k].start_x) = Int2Rat(ci * cfg.cell_width)
                /\ UnclippedX(lines[k].end_x) = Int2Rat((ci + 1) * cfg.cell_width)
                /\ lines[k].start_y = y21(cfg, ci, cj)
                /\ lines[k].end_y = y22(cfg, ci, cj)
                /\ lines[k].line_type = (IF cj % 2 = 0 THEN MOUNTAIN ELSE VALLEY)

\* a finished pass with such a line in an even and in an odd row
C8_Witness ==
    /\ pc = "done"
    /\ LinesAt(<<"not_last_row", 1, 0>>) # {}
    /\ LinesAt(<<"not_last_row", 1, 1>>) # {}

\* C10: with cells_hor >= 1 and cells_vert >= 1, every line handed to
\* line_func has two distinct end points after clipping, also when
\* tan(alpha) > 1 (stated here for that case, on positive inputs).
C10_NoZeroLengthLine ==
    (/\ Passed /\ PositiveInputs(cfg)
     /\ cells_hor(cfg) >= 1 /\ cells_vert(cfg) >= 1
     /\ RLt(Int2Rat(1), TanAlpha(cfg))) =>
        \A k \in LineIndices :
            <<lines[k].x1, lines[k].y1>> # <<lines[k].x2, lines[k].y2>>

=============================================================================
